---- MODULE Spec2Model ----
(***************************************************************************)
(* Model of nocks (src/src/main.rs): map loading (load_map), the input     *)
(* handler (handle_window_event) and the frame loop of main().             *)
(*                                                                         *)
(* Numbers.  The program computes in f32.  The model computes in exact     *)
(* integers: angles are held in tenths of a degree (ANGLE_SCALE), so that  *)
(* the sensitivity 0.1 degree per pixel is exact for integer cursor        *)
(* coordinates; trigonometry is tabulated at the multiples of 90 degrees,  *)
(* the only angles the frame-loop specification produces; positions are    *)
(* integers and the frame time dt is a whole number of seconds.            *)
(***************************************************************************)
EXTENDS Integers, Sequences, FiniteSets, TLC

VARIABLES
    pc,                   \* position of main()
    panic,                \* "" or the reason the process aborted
    file,                 \* the map file on disk (input of load_map)
    mime_map,             \* load_map: the deserialized sectors
    meshes,               \* load_map: the local Vec<Mesh> being built
    map,                  \* main: the Map returned by load_map
    window_should_close,  \* glfw window close flag
    events,               \* the receiver of polled window events
    game_state,           \* GameState
    camera,               \* Camera3D
    uniform_buffer,       \* the CPU copy of UniformBuffer
    gpu_uniform_buffer,   \* gpu_device.uniform_buffer (GPU side)
    dt,                   \* main: delta time of this iteration
    frame,                \* number of loop iterations started
    steps,                \* the steps executed in the current iteration
    draws,                \* the draw calls recorded in the current pass
    submitted,            \* number of command buffers submitted
    presented,            \* number of frames presented
    last_key              \* history: the last Press/Release seen per movement key

vars == <<pc, panic, file, mime_map, meshes, map, window_should_close, events,
          game_state, camera, uniform_buffer, gpu_uniform_buffer, dt,
          frame, steps, draws, submitted, presented, last_key>>

----------------------------------------------------------------------------
(* Bounds *)

\* largest sector count of a map file
MaxSectors == 39
\* loop iterations explored
MaxFrames == 2
\* length of the event batch in SpecInput
MaxInput == 3

\* largest number of events delivered by one poll_events in the frame loop
MaxBatch == 2
\* largest delta time (seconds) of one iteration
MaxDt == 1

\* cursor positions (pixels) delivered in the frame loop: the angles they
\* produce are multiples of 90 degrees
LoopCursor == {<<0, 0>>, <<900, 0>>, <<0, 900>>}
\* cursor coordinates delivered to the handler in SpecInput
InputCoords == {-7, 0, 1800}

----------------------------------------------------------------------------
(* Program constants *)

PROBE_INDEX == 38
CAMERA_SPEED == 100
\* SENSITIVITY = 0.1 = 1 / 10
SENSITIVITY_NUM == 1
SENSITIVITY_DEN == 10
\* model units per degree: one pixel times SENSITIVITY is a whole unit
ANGLE_SCALE == SENSITIVITY_DEN
YAW_INIT == 90
PITCH_INIT == 0

----------------------------------------------------------------------------
(* Vectors *)

VecAdd(a, b) == <<a[1] + b[1], a[2] + b[2], a[3] + b[3]>>
VecSub(a, b) == <<a[1] - b[1], a[2] - b[2], a[3] - b[3]>>
VecScale(k, a) == <<k * a[1], k * a[2], k * a[3]>>
Cross(a, b) == <<a[2] * b[3] - a[3] * b[2],
                 a[3] * b[1] - a[1] * b[3],
                 a[1] * b[2] - a[2] * b[1]>>
Sgn(x) == IF x > 0 THEN 1 ELSE IF x < 0 THEN -1 ELSE 0

HorizontalUnits == {<<1, 0, 0>>, <<-1, 0, 0>>, <<0, 0, 1>>, <<0, 0, -1>>}

\* Vec3::normalize.  The vectors of the model are axis aligned; the exact
\* zero vector stands for the f32 rounding residue of cos(90 deg), whose
\* normalised direction is some horizontal unit vector.
Normalize(v) ==
    IF v = <<0, 0, 0>> THEN HorizontalUnits
    ELSE {<<Sgn(v[1]), Sgn(v[2]), Sgn(v[3])>>}

\* f32::to_radians followed by cos / sin, at multiples of 90 degrees
Cos(a) ==
    LET m == a % (360 * ANGLE_SCALE)
    IN  IF m = 0 THEN 1 ELSE IF m = 180 * ANGLE_SCALE THEN -1 ELSE 0
Sin(a) ==
    LET m == a % (360 * ANGLE_SCALE)
    IN  IF m = 90 * ANGLE_SCALE THEN 1 ELSE IF m = 270 * ANGLE_SCALE THEN -1 ELSE 0

Direction(yaw, pitch) ==
    <<Cos(yaw) * Cos(pitch), Sin(pitch), Sin(yaw) * Cos(pitch)>>

----------------------------------------------------------------------------
(* Map files *)

MimeVertex(i, k) == [x |-> i, y |-> k, z |-> 0, color |-> <<1, 0, 1>>]

\* sector i of a file; bad: its index buffer references vertex 3 of 0..2
MimeSector(i, bad) ==
    [vertex_buffer |-> <<MimeVertex(i, 0), MimeVertex(i, 1), MimeVertex(i, 2)>>,
     index_buffer |-> IF bad THEN <<0, 1, 3>> ELSE <<0, 1, 2>>]

\* a file of n sectors whose sector badAt (0: none) has an out-of-range index.
\* status: "missing" (open fails), "unreadable" (read fails), "malformed"
\* (mime::Map::deserialize returns Err) or "ok" (it returns the sectors).
MapFile(status, n, badAt) == [status |-> status, count |-> n, badAt |-> badAt]

\* the sectors mime::Map::deserialize yields for the bytes of a file
SectorsOf(f) == [i \in 1..f.count |-> MimeSector(i, i = f.badAt)]

FailingFiles == {MapFile(s, 0, 0) : s \in {"missing", "unreadable", "malformed"}}

\* the files of SpecLoad.  Whether mime::Map::deserialize accepts a file is
\* its status, an input that does not depend on the index values: a file with
\* an out-of-range index occurs both as "ok" and as "malformed".
MapFiles ==
    FailingFiles \cup
    {MapFile("malformed", n, 1) : n \in {MaxSectors}} \cup
    {MapFile("ok", n, b) : n \in 0..MaxSectors, b \in {0}} \cup
    {MapFile("ok", n, b) : n \in 1..MaxSectors, b \in {1}} \cup
    {MapFile("ok", n, n) : n \in 2..MaxSectors}

\* the files of Spec
MainFiles ==
    FailingFiles \cup {MapFile("ok", n, 0) : n \in {1, PROBE_INDEX, MaxSectors}}

----------------------------------------------------------------------------
(* Meshes *)

\* Vertex { position: [v.x, v.y, v.z], color: [v.color[0], v.color[1],
\* v.color[2]] }, laid out as the six floats of the repr(C) struct
VertexOf(v) == <<v.x, v.y, v.z, v.color[1], v.color[2], v.color[3]>>

ConvertVertices(vs) == [k \in 1..Len(vs) |-> VertexOf(vs[k])]

\* index_count is the index buffer's length as a u32; try_into().unwrap()
\* aborts only for 2^32 indices or more, which no file of the model holds.
MeshFromData(vertex_buffer, index_buffer) ==
    [vertex_buffer |-> vertex_buffer,
     index_buffer |-> index_buffer,
     index_count |-> Len(index_buffer)]

NoMap == [loaded |-> FALSE, meshes |-> <<>>]

----------------------------------------------------------------------------
(* Events *)

Keys == {"Escape", "W", "S", "A", "D", "Space"}
MoveKeys == {"W", "S", "A", "D"}

KeyEv(k, a) == [type |-> "Key", key |-> k, action |-> a, mx |-> 0, my |-> 0]
CursorEv(x, y) == [type |-> "CursorPos", key |-> "None", action |-> "None",
                   mx |-> x, my |-> y]

\* every event the handler can receive (key and cursor polling are enabled)
InputEvents ==
    {KeyEv(k, a) : k \in Keys, a \in {"Press", "Release"}} \cup
    {KeyEv(k, "Repeat") : k \in {"Escape", "W", "Space"}} \cup
    {CursorEv(x, y) : x \in InputCoords, y \in InputCoords}

\* the events delivered in the frame loop
LoopEvents ==
    {KeyEv("Escape", "Press"), KeyEv("W", "Press"), KeyEv("W", "Release"),
     KeyEv("Space", "Repeat")} \cup
    {CursorEv(c[1], c[2]) : c \in LoopCursor}

\* the sequences over S whose length is in lens
SeqsOf(S, lens) == UNION {[1..n -> S] : n \in lens}

----------------------------------------------------------------------------
(* Initial state *)

GameStateNew ==
    [up |-> FALSE, down |-> FALSE, left |-> FALSE, right |-> FALSE,
     first_mouse |-> TRUE, last_mouse_x |-> 0, last_mouse_y |-> 0,
     yaw |-> YAW_INIT * ANGLE_SCALE, pitch |-> PITCH_INIT * ANGLE_SCALE]

Camera3DNew(pos, front) == [pos |-> pos, front |-> front, up |-> <<0, 1, 0>>]

UniformBufferNew(projection_matrix, view_matrix, model_matrix) ==
    [projection_matrix |-> projection_matrix,
     view_matrix |-> view_matrix,
     model_matrix |-> model_matrix]

InitMain ==
    /\ panic = ""
    /\ window_should_close = FALSE
    /\ events = <<>>
    /\ game_state = GameStateNew
    /\ camera = Camera3DNew(<<1077, 460, -3600>>, <<0, 0, 1>>)
    /\ uniform_buffer = UniformBufferNew("perspective_lh", "identity", "scale_one")
    /\ gpu_uniform_buffer = uniform_buffer
    /\ dt = 0
    /\ frame = 0
    /\ steps = <<>>
    /\ draws = <<>>
    /\ submitted = 0
    /\ presented = 0
    /\ last_key = [k \in MoveKeys |-> "None"]

Init ==
    /\ InitMain
    /\ pc = "load_open"
    /\ file \in MainFiles
    /\ mime_map = <<>>
    /\ meshes = <<>>
    /\ map = NoMap

----------------------------------------------------------------------------
(* load_map *)

loopVars == <<window_should_close, events, game_state, camera, uniform_buffer,
              gpu_uniform_buffer, dt, frame, steps, draws, submitted, presented,
              last_key>>
loadVars == <<file, mime_map, meshes, map>>

\* File::open(filename).ok()?  -- None makes main's expect() abort
FileOpen ==
    /\ pc = "load_open"
    /\ IF file.status = "missing"
       THEN pc' = "panicked" /\ panic' = "Failed to load map"
       ELSE pc' = "load_read" /\ panic' = panic
    /\ UNCHANGED <<loadVars, loopVars>>

\* file.read_to_end(&mut data).ok()?
FileRead ==
    /\ pc = "load_read"
    /\ IF file.status = "unreadable"
       THEN pc' = "panicked" /\ panic' = "Failed to load map"
       ELSE pc' = "load_parse" /\ panic' = panic
    /\ UNCHANGED <<loadVars, loopVars>>

\* mime::Map::deserialize(&data).unwrap()
Deserialize ==
    /\ pc = "load_parse"
    /\ IF file.status = "malformed"
       THEN pc' = "panicked" /\ panic' = "unwrap on Err" /\ mime_map' = mime_map
       ELSE pc' = "load_probe" /\ panic' = panic /\ mime_map' = SectorsOf(file)
    /\ UNCHANGED <<file, meshes, map, loopVars>>

\* let sector = &mime_map.sectors[38];
ProbeSector ==
    /\ pc = "load_probe"
    /\ IF PROBE_INDEX >= Len(mime_map)
       THEN pc' = "panicked" /\ panic' = "index out of bounds"
       ELSE pc' = "load_loop" /\ panic' = panic
    /\ UNCHANGED <<loadVars, loopVars>>

\* one iteration of `for sector in &mime_map.sectors`
LoadSector ==
    /\ pc = "load_loop"
    /\ Len(meshes) < Len(mime_map)
    /\ LET sector == mime_map[Len(meshes) + 1]
           vertex_buffer == ConvertVertices(sector.vertex_buffer)
           index_buffer == sector.index_buffer
       IN  meshes' = Append(meshes, MeshFromData(vertex_buffer, index_buffer))
    /\ UNCHANGED <<pc, panic, file, mime_map, map, loopVars>>

\* LoadReturn that returns as soon as one mesh is built
LoadReturnEarly ==
    /\ pc = "load_loop"
    /\ Len(meshes) >= 1
    /\ map' = [loaded |-> TRUE, meshes |-> meshes]
    /\ mime_map' = <<>>
    /\ meshes' = <<>>
    /\ pc' = "loop_cond"
    /\ UNCHANGED <<panic, file, loopVars>>

\* Some(Map { meshes }), received by main through expect(); the locals of
\* load_map are dropped
LoadReturn ==
    /\ pc = "load_loop"
    /\ Len(meshes) = Len(mime_map)
    /\ map' = [loaded |-> TRUE, meshes |-> meshes]
    /\ mime_map' = <<>>
    /\ meshes' = <<>>
    /\ pc' = "loop_cond"
    /\ UNCHANGED <<panic, file, loopVars>>

NextLoad ==
    \/ FileOpen
    \/ FileRead
    \/ Deserialize
    \/ ProbeSector
    \/ LoadSector
    \/ LoadReturn

InitLoad ==
    /\ InitMain
    /\ pc = "load_open"
    /\ file \in MapFiles
    /\ mime_map = <<>>
    /\ meshes = <<>>
    /\ map = NoMap

SpecLoad == InitLoad /\ [][NextLoad]_vars

----------------------------------------------------------------------------
(* handle_window_event *)

\* an offset in pixels times SENSITIVITY, in angle units
Scaled(offset) == (offset * ANGLE_SCALE * SENSITIVITY_NUM) \div SENSITIVITY_DEN

\* KeyPressed whose Space key re-arms the first-sample latch
KeyPressedRearming(gs, key) ==
    IF key = "W" THEN [gs EXCEPT !.up = TRUE]
    ELSE IF key = "S" THEN [gs EXCEPT !.down = TRUE]
    ELSE IF key = "A" THEN [gs EXCEPT !.left = TRUE]
    ELSE IF key = "D" THEN [gs EXCEPT !.right = TRUE]
    ELSE IF key = "Space" THEN [gs EXCEPT !.first_mouse = TRUE]
    ELSE gs

\* arm Key(key, _, Action::Press, _), key other than Escape
KeyPressed(gs, key) ==
    IF key = "W" THEN [gs EXCEPT !.up = TRUE]
    ELSE IF key = "S" THEN [gs EXCEPT !.down = TRUE]
    ELSE IF key = "A" THEN [gs EXCEPT !.left = TRUE]
    ELSE IF key = "D" THEN [gs EXCEPT !.right = TRUE]
    ELSE gs

\* KeyReleased with the A and D arms exchanged
KeyReleasedSwapped(gs, key) ==
    IF key = "W" THEN [gs EXCEPT !.up = FALSE]
    ELSE IF key = "S" THEN [gs EXCEPT !.down = FALSE]
    ELSE IF key = "A" THEN [gs EXCEPT !.right = FALSE]
    ELSE IF key = "D" THEN [gs EXCEPT !.left = FALSE]
    ELSE gs

\* arm Key(key, _, Action::Release, _)
KeyReleased(gs, key) ==
    IF key = "W" THEN [gs EXCEPT !.up = FALSE]
    ELSE IF key = "S" THEN [gs EXCEPT !.down = FALSE]
    ELSE IF key = "A" THEN [gs EXCEPT !.left = FALSE]
    ELSE IF key = "D" THEN [gs EXCEPT !.right = FALSE]
    ELSE gs

\* CursorMoved with the x offset added to yaw
CursorMovedYawAdded(gs, mx, my) ==
    LET latched == IF gs.first_mouse
                   THEN [gs EXCEPT !.last_mouse_x = mx,
                                   !.last_mouse_y = my,
                                   !.first_mouse = FALSE]
                   ELSE gs
        x_offset == mx - latched.last_mouse_x
        y_offset == latched.last_mouse_y - my
    IN  [latched EXCEPT !.last_mouse_x = mx,
                        !.last_mouse_y = my,
                        !.yaw = latched.yaw + Scaled(x_offset),
                        !.pitch = latched.pitch + Scaled(y_offset)]

\* CursorMoved without the latch of the first sample
CursorMovedNoLatch(gs, mx, my) ==
    LET x_offset == mx - gs.last_mouse_x
        y_offset == gs.last_mouse_y - my
    IN  [gs EXCEPT !.first_mouse = FALSE,
                   !.last_mouse_x = mx,
                   !.last_mouse_y = my,
                   !.yaw = gs.yaw - Scaled(x_offset),
                   !.pitch = gs.pitch + Scaled(y_offset)]

\* CursorMoved that stores the cursor position of the first sample only
CursorMovedKeepingLast(gs, mx, my) ==
    LET latched == IF gs.first_mouse
                   THEN [gs EXCEPT !.last_mouse_x = mx,
                                   !.last_mouse_y = my,
                                   !.first_mouse = FALSE]
                   ELSE gs
        x_offset == mx - latched.last_mouse_x
        y_offset == latched.last_mouse_y - my
    IN  [latched EXCEPT !.yaw = latched.yaw - Scaled(x_offset),
                        !.pitch = latched.pitch + Scaled(y_offset)]

\* CursorMoved with pitch clamped to [-89, 89] degrees
CursorMovedClamped(gs, mx, my) ==
    LET latched == IF gs.first_mouse
                   THEN [gs EXCEPT !.last_mouse_x = mx,
                                   !.last_mouse_y = my,
                                   !.first_mouse = FALSE]
                   ELSE gs
        x_offset == mx - latched.last_mouse_x
        y_offset == latched.last_mouse_y - my
        pitch == latched.pitch + Scaled(y_offset)
    IN  [latched EXCEPT !.last_mouse_x = mx,
                        !.last_mouse_y = my,
                        !.yaw = latched.yaw - Scaled(x_offset),
                        !.pitch = IF pitch > 89 * ANGLE_SCALE
                                  THEN 89 * ANGLE_SCALE
                                  ELSE IF pitch < -89 * ANGLE_SCALE
                                       THEN -89 * ANGLE_SCALE
                                       ELSE pitch]

\* arm CursorPos(mx, my)
CursorMoved(gs, mx, my) ==
    LET latched == IF gs.first_mouse
                   THEN [gs EXCEPT !.last_mouse_x = mx,
                                   !.last_mouse_y = my,
                                   !.first_mouse = FALSE]
                   ELSE gs
        x_offset == mx - latched.last_mouse_x
        y_offset == latched.last_mouse_y - my
    IN  [latched EXCEPT !.last_mouse_x = mx,
                        !.last_mouse_y = my,
                        !.yaw = latched.yaw - Scaled(x_offset),
                        !.pitch = latched.pitch + Scaled(y_offset)]

frameVars == <<camera, uniform_buffer, gpu_uniform_buffer, dt, frame,
               draws, submitted, presented>>

\* the history of Press/Release events after event e
Seen(e) ==
    IF e.type = "Key" /\ e.key \in MoveKeys /\ e.action \in {"Press", "Release"}
    THEN [last_key EXCEPT ![e.key] = e.action]
    ELSE last_key

Handling == pc = "events" /\ events # <<>>

HandleEscapePress ==
    /\ Handling
    /\ LET e == Head(events)
       IN  /\ e.type = "Key" /\ e.key = "Escape" /\ e.action = "Press"
           /\ window_should_close' = TRUE
           /\ steps' = IF window_should_close THEN steps ELSE Append(steps, "close")
    /\ events' = Tail(events)
    /\ last_key' = Seen(Head(events))
    /\ UNCHANGED <<pc, panic, loadVars, game_state, frameVars>>

HandleKeyPress ==
    /\ Handling
    /\ LET e == Head(events)
       IN  /\ e.type = "Key" /\ e.key # "Escape" /\ e.action = "Press"
           /\ game_state' = KeyPressed(game_state, e.key)
    /\ events' = Tail(events)
    /\ last_key' = Seen(Head(events))
    /\ UNCHANGED <<pc, panic, loadVars, window_should_close, steps, frameVars>>

HandleKeyRelease ==
    /\ Handling
    /\ LET e == Head(events)
       IN  /\ e.type = "Key" /\ e.action = "Release"
           /\ game_state' = KeyReleased(game_state, e.key)
    /\ events' = Tail(events)
    /\ last_key' = Seen(Head(events))
    /\ UNCHANGED <<pc, panic, loadVars, window_should_close, steps, frameVars>>

HandleCursorPos ==
    /\ Handling
    /\ LET e == Head(events)
       IN  /\ e.type = "CursorPos"
           /\ game_state' = CursorMoved(game_state, e.mx, e.my)
    /\ events' = Tail(events)
    /\ last_key' = Seen(Head(events))
    /\ UNCHANGED <<pc, panic, loadVars, window_should_close, steps, frameVars>>

\* HandleOther that treats a repeated key as pressed
HandleOtherAsPress ==
    /\ Handling
    /\ LET e == Head(events)
       IN  /\ e.type = "Key" /\ e.action = "Repeat"
           /\ game_state' = KeyPressed(game_state, e.key)
    /\ events' = Tail(events)
    /\ last_key' = Seen(Head(events))
    /\ UNCHANGED <<pc, panic, loadVars, window_should_close, steps, frameVars>>

\* arm _ => {}
HandleOther ==
    /\ Handling
    /\ LET e == Head(events)
       IN  e.type = "Key" /\ e.action = "Repeat"
    /\ events' = Tail(events)
    /\ last_key' = Seen(Head(events))
    /\ UNCHANGED <<pc, panic, loadVars, window_should_close, game_state, steps,
                   frameVars>>

NextInput ==
    \/ HandleEscapePress
    \/ HandleKeyPress
    \/ HandleKeyRelease
    \/ HandleCursorPos
    \/ HandleOther

----------------------------------------------------------------------------
(* main: the frame loop *)

\* LoopEnter that does not test the close flag
LoopEnterIgnoringClose ==
    /\ pc = "loop_cond"
    /\ frame < MaxFrames
    /\ frame' = frame + 1
    /\ steps' = <<>>
    /\ draws' = <<>>
    /\ pc' = "dt"
    /\ UNCHANGED <<panic, loadVars, window_should_close, events, game_state,
                   camera, uniform_buffer, gpu_uniform_buffer, dt,
                   submitted, presented, last_key>>

\* while !window.should_close(): the condition is true
LoopEnter ==
    /\ pc = "loop_cond"
    /\ ~window_should_close
    /\ frame < MaxFrames
    /\ frame' = frame + 1
    /\ steps' = <<>>
    /\ draws' = <<>>
    /\ pc' = "dt"
    /\ UNCHANGED <<panic, loadVars, window_should_close, events, game_state,
                   camera, uniform_buffer, gpu_uniform_buffer, dt,
                   submitted, presented, last_key>>

\* while !window.should_close(): the condition is false, main returns
LoopExit ==
    /\ pc = "loop_cond"
    /\ window_should_close
    /\ pc' = "done"
    /\ UNCHANGED <<panic, loadVars, loopVars>>

\* now = time.elapsed(); dt = now - past; past = now.  The time that has
\* passed since the previous iteration is an input.
DeltaTime ==
    /\ pc = "dt"
    /\ dt' \in 1..MaxDt
    /\ steps' = Append(steps, "dt")
    /\ pc' = "poll"
    /\ UNCHANGED <<panic, loadVars, window_should_close, events, game_state,
                   camera, uniform_buffer, gpu_uniform_buffer, frame, draws,
                   submitted, presented, last_key>>

\* glfw.poll_events(): the events of this iteration arrive in the receiver
PollEvents ==
    /\ pc = "poll"
    /\ events' \in SeqsOf(LoopEvents, 0..MaxBatch)
    /\ steps' = Append(steps, "poll")
    /\ pc' = "events"
    /\ UNCHANGED <<panic, loadVars, window_should_close, game_state, frameVars,
                   last_key>>

\* camera.front.cross(camera.up).normalize()
Side(cam) == Normalize(Cross(cam.front, cam.up))

\* the position after the four movement statements
Moved(cam, gs, delta, side) ==
    LET p0 == cam.pos
        p1 == IF gs.up
              THEN VecAdd(p0, VecScale(delta, VecScale(CAMERA_SPEED, cam.front)))
              ELSE p0
        p2 == IF gs.down
              THEN VecSub(p1, VecScale(delta, VecScale(CAMERA_SPEED, cam.front)))
              ELSE p1
        p3 == IF gs.right
              THEN VecSub(p2, VecScale(delta, VecScale(CAMERA_SPEED, side)))
              ELSE p2
        p4 == IF gs.left
              THEN VecAdd(p3, VecScale(delta, VecScale(CAMERA_SPEED, side)))
              ELSE p3
    IN  p4

\* MoveCamera that moves along the direction of the current yaw and pitch
MoveCameraAlongNewDirection ==
    /\ pc = "events"
    /\ events = <<>>
    /\ \E front \in Normalize(Direction(game_state.yaw, game_state.pitch)) :
          LET cam == [camera EXCEPT !.front = front]
          IN  \E side \in Side(cam) :
                 camera' = [camera EXCEPT
                               !.pos = Moved(cam, game_state, dt, side)]
    /\ steps' = Append(steps, "move")
    /\ pc' = "derive"
    /\ UNCHANGED <<panic, loadVars, window_should_close, events, game_state,
                   uniform_buffer, gpu_uniform_buffer, dt, frame, draws,
                   submitted, presented, last_key>>

\* MoveCamera that leaves the loop when the close flag is set
MoveCameraCancelling ==
    /\ pc = "events"
    /\ events = <<>>
    /\ \E side \in Side(camera) :
          camera' = [camera EXCEPT !.pos = Moved(camera, game_state, dt, side)]
    /\ steps' = Append(steps, "move")
    /\ pc' = IF window_should_close THEN "done" ELSE "derive"
    /\ UNCHANGED <<panic, loadVars, window_should_close, events, game_state,
                   uniform_buffer, gpu_uniform_buffer, dt, frame, draws,
                   submitted, presented, last_key>>

\* the event loop has ended; if game_state.up { camera.pos += ... } ...
MoveCamera ==
    /\ pc = "events"
    /\ events = <<>>
    /\ \E side \in Side(camera) :
          camera' = [camera EXCEPT !.pos = Moved(camera, game_state, dt, side)]
    /\ steps' = Append(steps, "move")
    /\ pc' = "derive"
    /\ UNCHANGED <<panic, loadVars, window_should_close, events, game_state,
                   uniform_buffer, gpu_uniform_buffer, dt, frame, draws,
                   submitted, presented, last_key>>

\* DeriveDirection followed by a second position update
DeriveDirectionThenMove ==
    /\ pc = "derive"
    /\ \E front \in Normalize(Direction(game_state.yaw, game_state.pitch)) :
          camera' = [camera EXCEPT !.front = front]
    /\ steps' = Append(steps, "derive")
    /\ pc' = "events"
    /\ UNCHANGED <<panic, loadVars, window_should_close, events, game_state,
                   uniform_buffer, gpu_uniform_buffer, dt, frame, draws,
                   submitted, presented, last_key>>

\* camera.front = direction.normalize()
DeriveDirection ==
    /\ pc = "derive"
    /\ \E front \in Normalize(Direction(game_state.yaw, game_state.pitch)) :
          camera' = [camera EXCEPT !.front = front]
    /\ steps' = Append(steps, "derive")
    /\ pc' = "acquire"
    /\ UNCHANGED <<panic, loadVars, window_should_close, events, game_state,
                   uniform_buffer, gpu_uniform_buffer, dt, frame, draws,
                   submitted, presented, last_key>>

\* AcquireTexture that carries on with the frame when the acquisition fails
AcquireTextureContinuing ==
    /\ pc = "acquire"
    /\ \E ok \in BOOLEAN :
          IF ok
          THEN pc' = "upload" /\ panic' = panic
          ELSE pc' = "upload" /\ panic' = "unwrap on Err"
    /\ steps' = Append(steps, "acquire")
    /\ UNCHANGED <<loadVars, window_should_close, events, game_state, frameVars,
                   last_key>>

\* gpu_device.surface.get_current_texture().unwrap()
AcquireTexture ==
    /\ pc = "acquire"
    /\ \E ok \in BOOLEAN :
          IF ok
          THEN pc' = "upload" /\ panic' = panic
          ELSE pc' = "panicked" /\ panic' = "unwrap on Err"
    /\ steps' = Append(steps, "acquire")
    /\ UNCHANGED <<loadVars, window_should_close, events, game_state, frameVars,
                   last_key>>

\* Camera3D::create_view_matrix: the arguments of Mat4::look_at_lh
CreateViewMatrix(cam) ==
    [eye |-> cam.pos, center |-> VecAdd(cam.pos, cam.front), up |-> cam.up]

\* UpdateView that resets the projection matrix as well
UpdateViewAndProjection(ub, view) ==
    [ub EXCEPT !.view_matrix = view, !.projection_matrix = "identity"]

\* UniformBuffer::update_view
UpdateView(ub, view) == [ub EXCEPT !.view_matrix = view]

\* uniform_buffer.update_view(...); queue.write_buffer(...)
UploadView ==
    /\ pc = "upload"
    /\ uniform_buffer' = UpdateView(uniform_buffer, CreateViewMatrix(camera))
    /\ gpu_uniform_buffer' = uniform_buffer'
    /\ steps' = Append(steps, "upload")
    /\ pc' = "pass"
    /\ UNCHANGED <<panic, loadVars, window_should_close, events, game_state,
                   camera, dt, frame, draws, submitted, presented, last_key>>

\* set_vertex_buffer, set_index_buffer, draw_indexed(0..index_count, 0, 0..1)
DrawIndexed(mesh) ==
    [vertex_buffer |-> mesh.vertex_buffer,
     index_buffer |-> mesh.index_buffer,
     first_index |-> 0,
     end_index |-> mesh.index_count]

\* DrawCalls in reverse map order
DrawCallsReversed(m) ==
    [i \in 1..Len(m.meshes) |-> DrawIndexed(m.meshes[Len(m.meshes) + 1 - i])]

\* for mesh in &map.meshes { ... }
DrawCalls(m) == [i \in 1..Len(m.meshes) |-> DrawIndexed(m.meshes[i])]

RenderPass ==
    /\ pc = "pass"
    /\ draws' = DrawCalls(map)
    /\ steps' = Append(steps, "pass")
    /\ pc' = "submit"
    /\ UNCHANGED <<panic, loadVars, window_should_close, events, game_state,
                   camera, uniform_buffer, gpu_uniform_buffer, dt, frame,
                   submitted, presented, last_key>>

\* gpu_device.queue.submit(...)
Submit ==
    /\ pc = "submit"
    /\ submitted' = submitted + 1
    /\ steps' = Append(steps, "submit")
    /\ pc' = "present"
    /\ UNCHANGED <<panic, loadVars, window_should_close, events, game_state,
                   camera, uniform_buffer, gpu_uniform_buffer, dt, frame,
                   draws, presented, last_key>>

\* output.present()
Present ==
    /\ pc = "present"
    /\ presented' = presented + 1
    /\ steps' = Append(steps, "present")
    /\ pc' = "loop_cond"
    /\ UNCHANGED <<panic, loadVars, window_should_close, events, game_state,
                   camera, uniform_buffer, gpu_uniform_buffer, dt, frame,
                   draws, submitted, last_key>>

NextLoop ==
    \/ LoopEnter
    \/ LoopExit
    \/ DeltaTime
    \/ PollEvents
    \/ MoveCamera
    \/ DeriveDirection
    \/ AcquireTexture
    \/ UploadView
    \/ RenderPass
    \/ Submit
    \/ Present

Next == NextLoad \/ NextInput \/ NextLoop

Spec == Init /\ [][Next]_vars

----------------------------------------------------------------------------
(* The handler alone: it is applied to every batch of at most MaxInput     *)
(* events, starting from GameState::new() in the first iteration.          *)

\* the Map load_map returns for file f
LoadedMap(f) ==
    [loaded |-> TRUE,
     meshes |-> [i \in 1..f.count |->
                   MeshFromData(ConvertVertices(SectorsOf(f)[i].vertex_buffer),
                                SectorsOf(f)[i].index_buffer)]]

InitInput ==
    /\ pc = "events"
    /\ panic = ""
    /\ file = MapFile("ok", MaxSectors, 0)
    /\ mime_map = <<>>
    /\ meshes = <<>>
    /\ map = LoadedMap(file)
    /\ window_should_close = FALSE
    /\ events \in SeqsOf(InputEvents, 0..MaxInput)
    /\ game_state = GameStateNew
    /\ camera = Camera3DNew(<<1077, 460, -3600>>, <<0, 0, 1>>)
    /\ uniform_buffer = UniformBufferNew("perspective_lh", "identity", "scale_one")
    /\ gpu_uniform_buffer = uniform_buffer
    /\ dt = 0
    /\ frame = 1
    /\ steps = <<"dt", "poll">>
    /\ draws = <<>>
    /\ submitted = 0
    /\ presented = 0
    /\ last_key = [k \in MoveKeys |-> "None"]

SpecInput == InitInput /\ [][NextInput]_vars

----------------------------------------------------------------------------
(* Properties *)

FrameOrder == <<"dt", "poll", "move", "derive", "acquire", "upload", "pass",
                "submit", "present">>

NotClose(x) == x # "close"
StepsNoClose == SelectSeq(steps, NotClose)

IsPrefix(a, b) == Len(a) <= Len(b) /\ \A i \in 1..Len(a) : a[i] = b[i]

Done(step) == \E i \in 1..Len(steps) : steps[i] = step

\* the number of occurrences of step after the close request was applied
AfterClose(step) ==
    Cardinality({j \in 1..Len(steps) :
                   steps[j] = step /\ \E i \in 1..(j - 1) : steps[i] = "close"})

YawInit == YAW_INIT * ANGLE_SCALE
PitchInit == PITCH_INIT * ANGLE_SCALE

\* the handler is about to receive a cursor-position sample
CursorSample == pc = "events" /\ events # <<>> /\ Head(events).type = "CursorPos"

\* C1 as stated: once the close request has been applied the loop ends within
\* the iteration and no queue submit and no present is executed after it.
C1_NoSubmissionAfterClose ==
    window_should_close =>
        /\ Done("close")
        /\ AfterClose("submit") = 0
        /\ AfterClose("present") = 0

\* C1 amended: once the close request has been applied no further iteration is
\* started (the request lies in the current iteration's steps), and the only
\* submit and present executed after it are those of that same iteration: at
\* most one each.
C1_TerminatesWithinOneIteration ==
    /\ window_should_close =>
          /\ Done("close")
          /\ AfterClose("submit") <= 1
          /\ AfterClose("present") <= 1
          /\ AfterClose("dt") = 0
    /\ pc = "done" => window_should_close

C1_Witness ==
    /\ pc = "done"
    /\ window_should_close
    /\ AfterClose("submit") = 1
    /\ AfterClose("present") = 1

\* C2 as stated: a cursor sample after the first sets yaw' = yaw - dx * 0.1 and
\* pitch' = pitch + dy * 0.1, where (dx, dy) = current - last.
C2_PitchAddsDelta ==
    [][CursorSample /\ ~game_state.first_mouse =>
        LET dx == Head(events).mx - game_state.last_mouse_x
            dy == Head(events).my - game_state.last_mouse_y
        IN  /\ (game_state.yaw - game_state'.yaw) * SENSITIVITY_DEN
                  = dx * SENSITIVITY_NUM * ANGLE_SCALE
            /\ (game_state'.pitch - game_state.pitch) * SENSITIVITY_DEN
                  = dy * SENSITIVITY_NUM * ANGLE_SCALE]_vars

\* C2 amended: a cursor sample after the first sets yaw' = yaw - dx * 0.1 and
\* pitch' = pitch - dy * 0.1, where (dx, dy) = current - last: the y offset
\* the handler scales is last - current.
C2_PitchSubtractsDelta ==
    [][CursorSample /\ ~game_state.first_mouse =>
        LET dx == Head(events).mx - game_state.last_mouse_x
            dy == Head(events).my - game_state.last_mouse_y
        IN  /\ (game_state.yaw - game_state'.yaw) * SENSITIVITY_DEN
                  = dx * SENSITIVITY_NUM * ANGLE_SCALE
            /\ (game_state.pitch - game_state'.pitch) * SENSITIVITY_DEN
                  = dy * SENSITIVITY_NUM * ANGLE_SCALE]_vars

C2_Witness ==
    /\ ~game_state.first_mouse
    /\ game_state.yaw # YawInit
    /\ game_state.pitch # PitchInit
    /\ events = <<>>

\* C3: the first cursor sample leaves yaw and pitch as they are, stores its
\* coordinates as the last cursor position and clears first_mouse.
C3_FirstSampleLatches ==
    [][CursorSample /\ game_state.first_mouse =>
        /\ game_state'.yaw = game_state.yaw
        /\ game_state'.pitch = game_state.pitch
        /\ game_state'.last_mouse_x = Head(events).mx
        /\ game_state'.last_mouse_y = Head(events).my
        /\ ~game_state'.first_mouse]_vars

C3_Witness ==
    /\ ~game_state.first_mouse
    /\ game_state.last_mouse_x = 1800
    /\ game_state.last_mouse_y = -7
    /\ game_state.yaw = YawInit
    /\ game_state.pitch = PitchInit

\* the file has a sector whose index buffer references a missing vertex
HasBadIndex(f) == f.badAt \in 1..f.count

\* C4 as stated: a parseable file of N sectors loads, whatever N is, into a Map
\* of exactly N meshes in source order.
C4_LoadsEverySectorCount ==
    file.status = "ok" =>
        /\ pc # "panicked"
        /\ map.loaded =>
              /\ Len(map.meshes) = file.count
              /\ \A i \in 1..Len(map.meshes) :
                    map.meshes[i].vertex_buffer[1][1] = i

Flag(key) ==
    IF key = "W" THEN game_state.up
    ELSE IF key = "S" THEN game_state.down
    ELSE IF key = "A" THEN game_state.left
    ELSE game_state.right

\* C5: each movement flag is true exactly when the last Press or Release event
\* of its key was a Press (and false when there was none).
C5_FlagFollowsLastKeyEvent ==
    \A key \in MoveKeys : Flag(key) = (last_key[key] = "Press")

C5_Witness ==
    /\ last_key["W"] = "Release" /\ ~game_state.up
    /\ last_key["S"] = "Press" /\ game_state.down
    /\ last_key["A"] = "None" /\ ~game_state.left

\* C6 as stated: every index of every mesh of a loaded Map is below the mesh's
\* vertex count, and a file with an out-of-range index is not loaded.
C6_IndicesInRange ==
    /\ map.loaded =>
          \A i \in 1..Len(map.meshes) :
             \A k \in 1..Len(map.meshes[i].index_buffer) :
                map.meshes[i].index_buffer[k] < Len(map.meshes[i].vertex_buffer)
    /\ HasBadIndex(file) => ~map.loaded

\* C7: a Map is returned only for a file that opened, was read and parsed, and
\* then it holds the mesh of every sector; an aborted load returns no Map.
C7_AllOrNothing ==
    /\ map.loaded =>
          /\ file.status = "ok"
          /\ pc # "panicked"
          /\ Len(map.meshes) = file.count
          /\ \A i \in 1..file.count :
                /\ map.meshes[i].index_buffer = SectorsOf(file)[i].index_buffer
                /\ Len(map.meshes[i].vertex_buffer)
                      = Len(SectorsOf(file)[i].vertex_buffer)
    /\ pc = "panicked" => ~map.loaded
    /\ file.status # "ok" => ~map.loaded

C7_Witness == map.loaded /\ Len(map.meshes) > PROBE_INDEX /\ pc = "loop_cond"

C9_FixedStepOrder ==
    /\ IsPrefix(StepsNoClose, FrameOrder)
    /\ Done("move") => events = <<>>
    /\ \A i \in 1..Len(steps) : steps[i] = "close" => i = 3

C9_Witness == pc = "loop_cond" /\ frame = 2 /\ steps = FrameOrder

\* C10: when the loop has ended, the iteration in which the close request was
\* polled has run every step that follows the polling, through present.
C10_ClosingIterationCompletes ==
    pc = "done" =>
        /\ Done("close")
        /\ StepsNoClose = FrameOrder
        /\ AfterClose("move") = 1
        /\ AfterClose("pass") = 1
        /\ AfterClose("submit") = 1
        /\ AfterClose("present") = 1

C10_Witness == window_should_close /\ pc = "present" /\ game_state.up

\* the acquisition of the surface texture has failed in some iteration
AcquireFailed == panic # "" /\ frame > 0

\* the number of occurrences of step in the current iteration
Times(step) == Cardinality({i \in 1..Len(steps) : steps[i] = step})

\* C11: a failed acquisition of the surface texture is fatal.  The program is
\* stopped right after the one acquisition attempt of that iteration: the
\* iteration has no upload, render pass, submit or present, the submits and
\* presents executed are those of the earlier iterations, and no step of the
\* program (no later iteration, no second attempt) follows the failure.
C11_AcquireFailureIsFatal ==
    /\ [](AcquireFailed =>
            /\ pc = "panicked"
            /\ steps[Len(steps)] = "acquire"
            /\ Times("acquire") = 1
            /\ ~Done("upload") /\ ~Done("pass")
            /\ ~Done("submit") /\ ~Done("present")
            /\ draws = <<>>
            /\ submitted = frame - 1
            /\ presented = frame - 1)
    /\ [][~AcquireFailed]_vars

C11_Witness ==
    /\ pc = "panicked"
    /\ Done("acquire")
    /\ frame = 2
    /\ submitted = 1
    /\ presented = 1

\* C12: in every state of the run, after any number of iterations, the
\* projection and the model matrix of the uniform block (the CPU copy and the
\* uploaded one) are those fixed at startup: the per-iteration update writes
\* the view matrix only.
C12_ProjectionAndModelFixed ==
    /\ uniform_buffer.projection_matrix = "perspective_lh"
    /\ uniform_buffer.model_matrix = "scale_one"
    /\ gpu_uniform_buffer.projection_matrix = "perspective_lh"
    /\ gpu_uniform_buffer.model_matrix = "scale_one"
    /\ Done("upload") =>
          /\ uniform_buffer.view_matrix = CreateViewMatrix(camera)
          /\ gpu_uniform_buffer = uniform_buffer

C12_Witness ==
    /\ frame = 2
    /\ pc = "loop_cond"
    /\ Done("upload")
    /\ uniform_buffer.view_matrix.eye # <<1077, 460, -3600>>
    /\ gpu_uniform_buffer.view_matrix.eye = camera.pos

\* the position update of an iteration is about to run
PositionUpdate == pc = "events" /\ events = <<>>

\* C13 as stated: while move-forward is the active intent the position update
\* leaves the vertical (y) coordinate of the position as it is, whatever the
\* pitch, and moves the position along the horizontal (x, z) components of
\* the look direction.
C13_ForwardKeepsHeight ==
    [][PositionUpdate /\ game_state.up /\ ~game_state.down
          /\ ~game_state.left /\ ~game_state.right =>
        /\ camera'.pos[2] = camera.pos[2]
        /\ camera'.pos[1] = camera.pos[1] + dt * CAMERA_SPEED * camera.front[1]
        /\ camera'.pos[3] = camera.pos[3] + dt * CAMERA_SPEED * camera.front[3]]_vars

\* the y coordinate a cursor sample is measured from: the stored one, or the
\* sample's own when it is the first
ReferenceY == IF game_state.first_mouse THEN Head(events).my
              ELSE game_state.last_mouse_y

\* C14: no bound is applied to pitch.  Every cursor sample, whatever the
\* current pitch is (beyond +90 or below -90 degrees included), changes pitch
\* by the whole scaled offset (reference y - sample y) * 0.1, and the
\* resulting pitch is not cut to any range.
C14_PitchNeverClamped ==
    [][CursorSample =>
        (game_state'.pitch - game_state.pitch) * SENSITIVITY_DEN
            = (ReferenceY - Head(events).my) * SENSITIVITY_NUM * ANGLE_SCALE]_vars

C14_Witness ==
    /\ ~game_state.first_mouse
    /\ game_state.pitch > 90 * ANGLE_SCALE
    /\ game_state.last_mouse_y = -7
    /\ events = <<>>

\* C15: every cursor sample, the first included, stores its coordinates as the
\* last cursor position, and no other event changes the stored position: the
\* position a sample is measured from is that of the preceding sample.
C15_LastCursorIsLatestSample ==
    [][IF CursorSample
       THEN /\ game_state'.last_mouse_x = Head(events).mx
            /\ game_state'.last_mouse_y = Head(events).my
       ELSE /\ game_state'.last_mouse_x = game_state.last_mouse_x
            /\ game_state'.last_mouse_y = game_state.last_mouse_y]_vars

C15_Witness ==
    /\ ~game_state.first_mouse
    /\ game_state.last_mouse_x = -7
    /\ game_state.last_mouse_y = 1800
    /\ game_state.yaw = YawInit + 7 * SENSITIVITY_NUM
    /\ game_state.up
    /\ events = <<>>

\* C16: first_mouse is true at startup; a step leaves it true exactly when it
\* was true and the event handled is not a cursor sample.  So the first
\* cursor sample clears it and no key or cursor event sets it again.
C16_FirstMouseOneWay ==
    /\ game_state.first_mouse
    /\ [][game_state'.first_mouse
              = (game_state.first_mouse /\ ~CursorSample)]_vars

C16_Witness ==
    /\ ~game_state.first_mouse
    /\ game_state.yaw = YawInit
    /\ game_state.pitch = PitchInit
    /\ game_state.left
    /\ ~game_state.right
    /\ last_key["D"] = "Release"
    /\ events = <<>>

\* the mouse-look fields of a GameState
Look(gs) == <<gs.yaw, gs.pitch, gs.first_mouse, gs.last_mouse_x, gs.last_mouse_y>>

\* the movement flags of a GameState
Flags(gs) == <<gs.up, gs.down, gs.left, gs.right>>

\* C17: handling a key event leaves yaw, pitch, first_mouse and the last
\* cursor position unchanged; handling a cursor sample leaves the four
\* movement flags unchanged; an Escape press, a repeated key, and a press or
\* release of a key other than W, S, A, D leave the whole GameState unchanged.
C17_HandlersTouchOwnFields ==
    [][Handling =>
        LET e == Head(events)
        IN  /\ e.type = "Key" => Look(game_state') = Look(game_state)
            /\ e.type = "CursorPos" => Flags(game_state') = Flags(game_state)
            /\ e.type = "Key" /\ (e.action = "Repeat" \/ e.key \notin MoveKeys)
                  => game_state' = game_state]_vars

C17_Witness ==
    /\ window_should_close
    /\ ~game_state.first_mouse
    /\ game_state.last_mouse_x = 1800
    /\ game_state.up
    /\ Flags(game_state) = <<TRUE, FALSE, FALSE, FALSE>>
    /\ events = <<>>

\* the look direction of a view matrix: center - eye
ViewDirection(view) == VecSub(view.center, view.eye)

\* the direction derived at the end of the previous iteration: that of the
\* view matrix uploaded then, and the initial front in the first iteration
PreviousDirection ==
    IF frame = 1 THEN <<0, 0, 1>>
    ELSE ViewDirection(gpu_uniform_buffer.view_matrix)

\* C18: the position update of an iteration moves the position along the
\* direction derived at the end of the previous iteration (the initial front
\* (0, 0, 1) in the first), whatever yaw and pitch the events polled in this
\* iteration have produced; the view matrix uploaded in an iteration looks
\* along the direction of that iteration's yaw and pitch.
C18_MovementUsesPreviousDirection ==
    /\ [][PositionUpdate /\ game_state.up /\ ~game_state.down
              /\ ~game_state.left /\ ~game_state.right =>
            camera'.pos
              = VecAdd(camera.pos,
                       VecScale(dt * CAMERA_SPEED, PreviousDirection))]_vars
    /\ [](Done("upload") =>
            ViewDirection(gpu_uniform_buffer.view_matrix)
                \in Normalize(Direction(game_state.yaw, game_state.pitch)))

C18_Witness ==
    /\ frame = 2
    /\ pc = "derive"
    /\ game_state.up
    /\ game_state.yaw = 0
    /\ game_state.pitch = 0
    /\ camera.front = <<0, 0, 1>>
    /\ camera.pos = <<1077, 460, -3600 + CAMERA_SPEED>>

====
